---- MODULE Spec2Model ----
(***************************************************************************)
(* A model of media_to_webm.py: the bitrate estimate (get_bitrate), the    *)
(* encode-and-retry controller (convert_to_webm / handle_large_webm), the  *)
(* image scale search (scale) and the duration patch of __main__.          *)
(*                                                                         *)
(* Each part has a specification of its own (SpecCtl, SpecBitrate,         *)
(* SpecScale, SpecPatch); the variables of the other parts stay at their   *)
(* idle values.                                                            *)
(***************************************************************************)
EXTENDS Integers, Sequences, FiniteSets

VARIABLES
    \* --- controller (convert_to_webm / handle_large_webm) ---
    pc,             \* "Idle" | "Encoding" | "Checking" | "HandleLarge" | "Done" | "Failed" | "Raised"
    bitrate,        \* the bitrate argument of the current convert_to_webm call
    startBitrate,   \* the bitrate __main__ passed to the first call
    attempts,       \* number of encoder runs so far
    webm,           \* the output path on disk: [exists, size]
    produced,       \* what the last encoder run wrote: [exists, size]
    errorReported,  \* error("Output too large, minimum bitrate already used") was printed
    \* --- get_bitrate ---
    length,         \* the source duration in seconds
    estimate,       \* the value get_bitrate returned (-1: not called yet)
    \* --- scale ---
    spc,            \* "Idle" | "entry" | "loop" | "done" | "skipped"
    caller,         \* who called scale: "check_resize" | "direct" | "none"
    image,          \* [width, height]
    side_length,    \* max(image.size)
    factor,
    score,
    new_size,       \* <<width, height>> returned by scale
    \* --- duration patch ---
    ppc,            \* "Idle" | "converted" (convert_to_webm returned) | "done"
    data,           \* the bytes of the output file
    original,       \* the bytes convert_to_webm left (history)
    patched         \* whether the patch branch was taken

vars == <<pc, bitrate, startBitrate, attempts, webm, produced, errorReported,
          length, estimate, spc, caller, image, side_length, factor, score, new_size,
          ppc, data, original, patched>>

ctlVars == <<pc, bitrate, startBitrate, attempts, webm, produced, errorReported>>
bitrateVars == <<length, estimate>>
scaleVars == <<spc, caller, image, side_length, factor, score, new_size>>
patchVars == <<ppc, data, original, patched>>

(***************************************************************************)
(* Configuration and constants of the program.                             *)
(***************************************************************************)
DEFAULT_BITRATE == 256
IMAGE_MIN == 400
IMAGE_MAX == 800
TO_BITS == 8
KILOBIT == 1000
MEGABYTE == 1024 * 1024
MIN_BITRATE == 45
MAX_FILE_SIZE == 6 * MEGABYTE
MAX_LENGTH == 300

(***************************************************************************)
(* Bounds of the model.                                                    *)
(***************************************************************************)
\* encoder runs explored in one controller run (the recursion of the code has
\* no counter of its own)
MaxAttempts == 6
\* initial bitrates MIN_BITRATE .. MIN_BITRATE + MaxStartOffset, and DEFAULT_BITRATE
MaxStartOffset == 4
\* output sizes 2^k * MAX_FILE_SIZE for k in 1 .. MaxSizeDoublings
MaxSizeDoublings == 6

Min(a, b) == IF a < b THEN a ELSE b
Max(a, b) == IF a > b THEN a ELSE b
Abs(a) == IF a < 0 THEN -a ELSE a

(***************************************************************************)
(* The controller.                                                         *)
(***************************************************************************)
NoFile == [exists |-> FALSE, size |-> 0]
File(n) == [exists |-> TRUE, size |-> n]

\* The sizes the external encoder may leave: empty, exactly the ceiling, one
\* byte over, and multiples of the ceiling.
OutputSizes ==
    {0, MAX_FILE_SIZE, MAX_FILE_SIZE + 1}
        \cup {(2 ^ k) * MAX_FILE_SIZE : k \in 1 .. MaxSizeDoublings}

\* run(command): the encoder writes the output path, or fails and leaves the
\* path as it was.
EncoderOutcomes(before) == {before} \cup {File(n) : n \in OutputSizes}

StartBitrates ==
    {MIN_BITRATE + k : k \in 0 .. MaxStartOffset} \cup {DEFAULT_BITRATE}

\* len(data) > MAX_FILE_SIZE
TooLargeOffByOne(n) == n > MAX_FILE_SIZE + 1
TooLarge(n) == n > MAX_FILE_SIZE

\* unlink(webm)
unlinkSkipped(file) == file
unlink(file) == NoFile

\* Lines 117-121: the locals bitrate and new_bitrate after the correction.
\* The branch for new_bitrate < 45 assigns the local bitrate, not new_bitrate.
handle_large_locals(b, n) ==
    LET new_bitrate == (b * MAX_FILE_SIZE) \div n
    IN  IF new_bitrate < 45
        THEN [bitrate |-> MIN_BITRATE, new_bitrate |-> new_bitrate]
        ELSE IF b = new_bitrate
             THEN [bitrate |-> b, new_bitrate |-> new_bitrate - 1]
             ELSE [bitrate |-> b, new_bitrate |-> new_bitrate]

InitCtlVars ==
    /\ pc = "Encoding"
    /\ startBitrate \in StartBitrates
    /\ bitrate = startBitrate
    /\ attempts = 0
    /\ webm = NoFile
    /\ produced = NoFile
    /\ errorReported = FALSE

IdleCtlVars ==
    /\ pc = "Idle"
    /\ startBitrate = DEFAULT_BITRATE
    /\ bitrate = DEFAULT_BITRATE
    /\ attempts = 0
    /\ webm = NoFile
    /\ produced = NoFile
    /\ errorReported = FALSE

\* convert_to_webm, lines 127-130: build the command and run the encoder.
RunEncoder ==
    /\ pc = "Encoding"
    /\ attempts < MaxAttempts
    /\ \E out \in EncoderOutcomes(webm) :
          /\ webm' = out
          /\ produced' = out
    /\ attempts' = attempts + 1
    /\ pc' = "Checking"
    /\ UNCHANGED <<bitrate, startBitrate, errorReported>>
    /\ UNCHANGED <<bitrateVars, scaleVars, patchVars>>

\* convert_to_webm, lines 131-134: open the output (FileNotFoundError when it
\* is absent, which the handler of __main__ prints), measure it.
ReadOutput ==
    /\ pc = "Checking"
    /\ pc' = IF ~webm.exists THEN "Raised"
             ELSE IF TooLarge(webm.size) THEN "HandleLarge"
             ELSE "Done"
    /\ UNCHANGED <<bitrate, startBitrate, attempts, webm, produced, errorReported>>
    /\ UNCHANGED <<bitrateVars, scaleVars, patchVars>>

\* handle_large_webm, lines 110-124.
handle_large_webm ==
    /\ pc = "HandleLarge"
    /\ IF TooLarge(webm.size)
       THEN IF bitrate = MIN_BITRATE
            THEN /\ errorReported' = TRUE
                 /\ pc' = "Failed"
                 /\ UNCHANGED <<bitrate, webm>>
            ELSE /\ bitrate' = handle_large_locals(bitrate, webm.size).new_bitrate
                 /\ webm' = unlink(webm)
                 /\ pc' = "Encoding"
                 /\ UNCHANGED errorReported
       ELSE /\ pc' = "Done"
            /\ UNCHANGED <<bitrate, webm, errorReported>>
    /\ UNCHANGED <<startBitrate, attempts, produced>>
    /\ UNCHANGED <<bitrateVars, scaleVars, patchVars>>

NextCtl ==
    \/ RunEncoder
    \/ ReadOutput
    \/ handle_large_webm

(***************************************************************************)
(* get_bitrate.  Durations are whole seconds.  The float expressions of    *)
(* the code are computed exactly, in integers:                             *)
(*   length * DEFAULT_BITRATE * KILOBIT > MAX_FILE_SIZE * TO_BITS          *)
(*     iff length > (MAX_FILE_SIZE * TO_BITS) \div (DEFAULT_BITRATE*KILOBIT)*)
(*   compression_multiplier = 1 + CompNum(length) / CompDen                *)
(*   bitrate * compression_multiplier < DEFAULT_BITRATE                    *)
(*     iff floor(bitrate * compression_multiplier) < DEFAULT_BITRATE       *)
(***************************************************************************)
\* durations 0 .. MaxDuration, then MaxStrides more in steps of DurationStride
MaxDuration == 1300
DurationStride == 500
MaxStrides == 77

Durations ==
    (0 .. MaxDuration)
        \cup {MaxDuration + k * DurationStride : k \in 1 .. MaxStrides}

\* (0.001*length + 0.2)*length/9800 as the fraction CompNum(length) / CompDen
CompNum(len) == (len + 200) * len
CompDen == 9800 * 1000

\* floor(bitrate * compression_multiplier).  The product is a float: where the
\* exact product is a whole number the float may fall just below it (length =
\* 9600 gives 52 for an exact 53), so both floors are results.
Compensated(b, len) ==
    LET exact == b + (b * CompNum(len)) \div CompDen
    IN  IF (b * CompNum(len)) % CompDen = 0 /\ b * CompNum(len) > 0
        THEN {exact - 1, exact}
        ELSE {exact}

\* The possible results of get_bitrate(length): one value, two where the
\* float rounding above decides.
get_bitrate_unclamped(len) ==
    IF len > (MAX_FILE_SIZE * TO_BITS) \div (DEFAULT_BITRATE * KILOBIT)
    THEN LET raw == (MAX_FILE_SIZE * TO_BITS) \div (len * KILOBIT)
         IN  {IF c < DEFAULT_BITRATE THEN c ELSE raw : c \in Compensated(raw, len)}
    ELSE {DEFAULT_BITRATE}

get_bitrate(len) ==
    IF len > (MAX_FILE_SIZE * TO_BITS) \div (DEFAULT_BITRATE * KILOBIT)
    THEN LET raw == (MAX_FILE_SIZE * TO_BITS) \div (len * KILOBIT)
             uncut == {IF c < DEFAULT_BITRATE THEN c ELSE raw :
                          c \in Compensated(raw, len)}
         IN  {IF b < MIN_BITRATE THEN MIN_BITRATE ELSE b : b \in uncut}
    ELSE {DEFAULT_BITRATE}

IdleBitrateVars ==
    /\ length = 0
    /\ estimate = -1

\* __main__, line 257: bitrate = get_bitrate(length)
CallGetBitrate ==
    /\ estimate = -1
    /\ estimate' \in get_bitrate(length)
    /\ UNCHANGED length
    /\ UNCHANGED <<ctlVars, scaleVars, patchVars>>

NextBitrate == CallGetBitrate

(***************************************************************************)
(* scale, and its caller check_resize.                                     *)
(***************************************************************************)
\* longer sides 1 .. MaxSide
MaxSide == 1650
\* iterations of the factor search explored
MaxFactor == 6

\* Images with longer side s: square, 4:3 landscape, 3:4 portrait.
ImagesOfSide(s) ==
    LET short == Max(1, (3 * s) \div 4)
    IN  {[width |-> s, height |-> s],
         [width |-> s, height |-> short],
         [width |-> short, height |-> s]}

Images == UNION {ImagesOfSide(s) : s \in 1 .. MaxSide}

\* Lines 139-142: floordiv when side_length > IMAGE_MAX, else mul.
operator(side, a, b) == IF side > IMAGE_MAX THEN a \div b ELSE a * b

\* Lines 144-150 for the candidate factor+1: "break", "score" (the candidate
\* is inside the range and not worse: keep its score), "skip".
scale_test(side, f, sc) ==
    IF IMAGE_MIN < side \div (f + 1) /\ side \div (f + 1) < IMAGE_MAX
    THEN IF Abs((IMAGE_MAX + IMAGE_MIN) \div 2 - operator(side, side, f + 1)) > sc
         THEN "break"
         ELSE "score"
    ELSE IF IMAGE_MIN > operator(side, side, f + 1)
         THEN "break"
         ELSE "skip"

IdleScaleVars ==
    /\ spc = "Idle"
    /\ caller = "none"
    /\ image = [width |-> 1, height |-> 1]
    /\ side_length = 1
    /\ factor = 1
    /\ score = 1000000
    /\ new_size = <<0, 0>>

InitScaleVars ==
    /\ spc = "entry"
    /\ caller = "none"
    /\ image \in Images
    /\ side_length = Max(image.width, image.height)
    /\ factor = 1
    /\ score = 1000000
    /\ new_size = <<0, 0>>

\* check_resize, lines 175-179 (check_resize_embedded, lines 209-212, guards
\* the call the same way): scale is called only when side_length > IMAGE_MAX.
check_resize ==
    /\ spc = "entry"
    /\ caller' = "check_resize"
    /\ spc' = IF side_length <= IMAGE_MAX THEN "skipped" ELSE "loop"
    /\ UNCHANGED <<image, side_length, factor, score, new_size>>
    /\ UNCHANGED <<ctlVars, bitrateVars, patchVars>>

\* scale(image, side_length) called with any positive side_length, lines 137-142.
scale_called ==
    /\ spc = "entry"
    /\ caller' = "direct"
    /\ spc' = "loop"
    /\ UNCHANGED <<image, side_length, factor, score, new_size>>
    /\ UNCHANGED <<ctlVars, bitrateVars, patchVars>>

\* One iteration of the while loop, lines 143-151; on break the rest of the
\* function, lines 152-158.
scale_step ==
    /\ spc = "loop"
    /\ factor < MaxFactor
    /\ LET t == scale_test(side_length, factor, score)
       IN  IF t = "break"
           THEN /\ new_size' = <<operator(side_length, image.width, factor),
                                 operator(side_length, image.height, factor)>>
                /\ spc' = "done"
                /\ UNCHANGED <<factor, score>>
           ELSE /\ factor' = factor + 1
                /\ score' = IF t = "score"
                            THEN Abs((IMAGE_MAX + IMAGE_MIN) \div 2
                                       - operator(side_length, side_length, factor + 1))
                            ELSE score
                /\ UNCHANGED <<spc, new_size>>
    /\ UNCHANGED <<caller, image, side_length>>
    /\ UNCHANGED <<ctlVars, bitrateVars, patchVars>>

NextScale ==
    \/ check_resize
    \/ scale_called
    \/ scale_step

(***************************************************************************)
(* The duration patch of __main__, lines 264-270.  Indices are Python's    *)
(* (from 0); a buffer is a sequence of bytes.                              *)
(***************************************************************************)
\* buffers of 0 .. MaxBufLen bytes
MaxBufLen == 9

DURATION_BYTE_MARKER == <<68, 137>>
FIVE_MINUTE_DURATION == <<68, 137, 136, 65, 18, 79, 128>>

\* The bytes buffers are made of: the two marker bytes and one other.
ByteChoices == {0, 68, 137}

Buffers == UNION {[1 .. n -> ByteChoices] : n \in 0 .. MaxBufLen}

\* whether sub occurs in buf at (0-based) index i
OccursAt(buf, sub, i) ==
    /\ i >= 0
    /\ i + Len(sub) <= Len(buf)
    /\ \A k \in 1 .. Len(sub) : buf[i + k] = sub[k]

\* bytearray.find(sub): the lowest index where sub occurs, else -1
find(buf, sub) ==
    LET hits == {i \in 0 .. Len(buf) : OccursAt(buf, sub, i)}
    IN  IF hits = {} THEN -1
        ELSE CHOOSE i \in hits : \A j \in hits : i <= j

\* a slice bound as Python normalises it: negative counts from the end, then
\* clipped to 0 .. len
SliceIndex(n, i) == IF i < 0 THEN Max(0, n + i) ELSE Min(n, i)

\* buf[i:j] = payload on a bytearray: the slice is replaced by the payload
SliceAssignOneMore(buf, i, j, payload) ==
    LET lo == SliceIndex(Len(buf), i)
        hi == Max(lo, SliceIndex(Len(buf), j + 1))
    IN  SubSeq(buf, 1, lo) \o payload \o SubSeq(buf, hi + 1, Len(buf))

SliceAssign(buf, i, j, payload) ==
    LET lo == SliceIndex(Len(buf), i)
        hi == Max(lo, SliceIndex(Len(buf), j))
    IN  SubSeq(buf, 1, lo) \o payload \o SubSeq(buf, hi + 1, Len(buf))

IdlePatchVars ==
    /\ ppc = "Idle"
    /\ data = <<>>
    /\ original = <<>>
    /\ patched = FALSE

InitPatchVars ==
    /\ ppc = "converted"
    /\ data \in Buffers
    /\ original = data
    /\ patched = FALSE

\* Lines 264-270: read the file, patch at the marker, write it back.
patch_duration ==
    /\ ppc = "converted"
    /\ IF length >= MAX_LENGTH
       THEN LET duration_index == find(data, DURATION_BYTE_MARKER)
            IN  /\ data' = SliceAssign(data, duration_index, duration_index + 7,
                                       FIVE_MINUTE_DURATION)
                /\ patched' = TRUE
       ELSE UNCHANGED <<data, patched>>
    /\ ppc' = "done"
    /\ UNCHANGED original
    /\ UNCHANGED <<ctlVars, bitrateVars, scaleVars>>

NextPatch == patch_duration

(***************************************************************************)
(* The specifications.                                                     *)
(***************************************************************************)
InitCtl == InitCtlVars /\ IdleBitrateVars /\ IdleScaleVars /\ IdlePatchVars
SpecCtl == InitCtl /\ [][NextCtl]_vars

InitBitrate ==
    /\ length \in Durations
    /\ estimate = -1
    /\ IdleCtlVars /\ IdleScaleVars /\ IdlePatchVars
SpecBitrate == InitBitrate /\ [][NextBitrate]_vars

InitScale == InitScaleVars /\ IdleCtlVars /\ IdleBitrateVars /\ IdlePatchVars
SpecScale == InitScale /\ [][NextScale]_vars

InitPatch ==
    /\ length \in {MAX_LENGTH - 1, MAX_LENGTH, MAX_LENGTH + 1}
    /\ estimate = -1
    /\ InitPatchVars
    /\ IdleCtlVars /\ IdleScaleVars
SpecPatch == InitPatch /\ [][NextPatch]_vars

(***************************************************************************)
(* The claims about the controller, checked under SpecCtl.                 *)
(***************************************************************************)
Returned == pc \in {"Done", "Failed"}

\* C1: every encode attempt uses a bitrate of at least MIN_BITRATE: a
\* correction that falls below the minimum is run at MIN_BITRATE.
C1_AttemptsAtOrAboveMinimum ==
    pc \in {"Encoding", "Checking", "HandleLarge", "Done", "Failed", "Raised"}
        => bitrate >= MIN_BITRATE

\* C2: a run makes at most initial_bitrate - MIN_BITRATE + 1 encode attempts.
C2_AttemptsWithinBound ==
    attempts <= startBitrate - MIN_BITRATE + 1

\* C3: when the controller has returned, the file on disk is within the
\* ceiling (Done), or the last attempt ran at MIN_BITRATE and the error was
\* reported (Failed); the error is reported in no other case, and nothing
\* is attempted after it.
C3_ReturnsWithinCeilingOrReportedFailure ==
    /\ [](/\ pc = "Done" => webm.exists /\ webm.size <= MAX_FILE_SIZE
          /\ pc = "Failed" => /\ errorReported
                              /\ bitrate = MIN_BITRATE
                              /\ webm.exists /\ webm.size > MAX_FILE_SIZE
          /\ errorReported => pc = "Failed"
          /\ (Returned /\ webm.size > MAX_FILE_SIZE) => errorReported)
    /\ [][pc = "Failed" => (pc' = "Failed" /\ attempts' = attempts)]_vars

\* C3's case: a retry at MIN_BITRATE was still too large, and the run failed.
C3_Witness ==
    /\ pc = "Failed"
    /\ attempts > 1
    /\ webm.size > MAX_FILE_SIZE

\* C4: every retry is invoked with a bitrate strictly lower than the attempt
\* before it.
C4_RetryStrictlyLower ==
    [][(pc = "HandleLarge" /\ pc' = "Encoding") => bitrate' < bitrate]_vars

\* C6: an attempt that leaves no output file, or an empty one, ends in an
\* error: neither in Done, nor in a retry.
C6_EmptyOutputSurfaced ==
    (/\ attempts > 0
     /\ pc # "Checking"
     /\ ~produced.exists \/ produced.size = 0)
        => pc = "Raised"

\* C9: the output is deleted exactly when a retry is about to start: when an
\* attempt begins no earlier output is on disk, and when the controller has
\* returned the last produced artifact is still there.
C9_ArtifactDeletedOnlyBeforeRetry ==
    /\ [](/\ (pc = "Encoding" /\ attempts > 0) => ~webm.exists
          /\ Returned => webm.exists /\ webm = produced)
    /\ [][(webm.exists /\ ~webm'.exists)
             <=> (pc = "HandleLarge" /\ pc' = "Encoding")]_vars

\* C9's case: a retry is about to start and the oversized output is gone.
C9_Witness ==
    /\ pc = "Encoding"
    /\ attempts > 0
    /\ produced.exists /\ produced.size > MAX_FILE_SIZE
    /\ ~webm.exists

(***************************************************************************)
(* The claim about get_bitrate, checked under SpecBitrate.                 *)
(***************************************************************************)
\* length * DEFAULT_BITRATE * KILOBIT > MAX_FILE_SIZE * TO_BITS
OverBudget(len) ==
    len > (MAX_FILE_SIZE * TO_BITS) \div (DEFAULT_BITRATE * KILOBIT)

\* C7: for a duration over the budget, get_bitrate returns a bitrate from
\* MIN_BITRATE to DEFAULT_BITRATE.
C7_EstimateWithinRange ==
    (estimate # -1 /\ OverBudget(length))
        => (MIN_BITRATE <= estimate /\ estimate <= DEFAULT_BITRATE)

\* C7's case: the compensation multiplier raised the estimate above the raw
\* quotient, and above the minimum.
C7_Witness ==
    /\ estimate # -1
    /\ OverBudget(length)
    /\ estimate > (MAX_FILE_SIZE * TO_BITS) \div (length * KILOBIT)
    /\ estimate > MIN_BITRATE

(***************************************************************************)
(* The claims about scale, checked under SpecScale.                        *)
(***************************************************************************)
InRange(n) == IMAGE_MIN < n /\ n < IMAGE_MAX
Distance(n) == Abs((IMAGE_MAX + IMAGE_MIN) \div 2 - n)

\* C5: for a longer side over IMAGE_MAX that some divisor brings strictly
\* inside (IMAGE_MIN, IMAGE_MAX), the chosen factor brings it strictly inside,
\* and closer to the midpoint than factor - 1 and factor + 1 do.
C5_ScaleChoosesBestDivisor ==
    (/\ spc = "done"
     /\ caller = "check_resize"
     /\ side_length > IMAGE_MAX
     /\ \E d \in 1 .. side_length : InRange(side_length \div d))
        => /\ InRange(side_length \div factor)
           /\ \A n \in {factor - 1, factor + 1} :
                 n >= 1 =>
                    \/ ~InRange(side_length \div n)
                    \/ Distance(side_length \div n)
                          > Distance(side_length \div factor)

\* C10: the factor search of scale terminates, in the divide and in the
\* multiply branch.  The loop leaves only through its two break tests, and a
\* candidate can meet one only if it is inside the range or its scaled side
\* is below IMAGE_MIN: while the loop runs, such a candidate lies ahead.  (The
\* quotient side_length \div (f+1) is 0 from f = side_length on, and the
\* product side_length * (f+1) only grows, so the candidates up to
\* side_length decide it.)
C10_ScaleTerminates ==
    spc = "loop" =>
        \E f \in factor .. Max(factor, side_length) :
            \/ InRange(side_length \div (f + 1))
            \/ IMAGE_MIN > operator(side_length, side_length, f + 1)

(***************************************************************************)
(* The claim about the duration patch, checked under SpecPatch.            *)
(***************************************************************************)
MarkerPlaces(buf) ==
    {i \in 0 .. Len(buf) : OccursAt(buf, DURATION_BYTE_MARKER, i)}

\* the byte the patch is to leave at (0-based) index k
Expected(k, idx) ==
    IF idx <= k /\ k < idx + 7
    THEN FIVE_MINUTE_DURATION[k - idx + 1]
    ELSE original[k + 1]

\* C8 as stated: with the marker once, at idx, bytes [idx, idx+7) become the
\* payload, every other byte and the length of the buffer are unchanged; the
\* patch is applied only when length >= MAX_LENGTH.
C8_PatchInPlace ==
    ppc = "done" =>
        /\ patched <=> length >= MAX_LENGTH
        /\ ~patched => data = original
        /\ (patched /\ Cardinality(MarkerPlaces(original)) = 1) =>
              LET idx == CHOOSE i \in MarkerPlaces(original) : TRUE
              IN  /\ Len(data) = Len(original)
                  /\ \A k \in 0 .. Len(data) - 1 : data[k + 1] = Expected(k, idx)

\* C8 amended: the same, with the length of the buffer max(len, idx + 7): a
\* marker with fewer than 7 bytes from idx to the end makes the buffer grow.
C8_PatchWritesPayloadAtMarker ==
    ppc = "done" =>
        /\ patched <=> length >= MAX_LENGTH
        /\ ~patched => data = original
        /\ (patched /\ Cardinality(MarkerPlaces(original)) = 1) =>
              LET idx == CHOOSE i \in MarkerPlaces(original) : TRUE
              IN  /\ Len(data) = Max(Len(original), idx + 7)
                  /\ \A k \in 0 .. Len(data) - 1 : data[k + 1] = Expected(k, idx)

\* C8's case: a patched buffer whose only marker has bytes before it and
\* more than 7 bytes from it to the end.
C8_Witness ==
    /\ ppc = "done"
    /\ patched
    /\ Cardinality(MarkerPlaces(original)) = 1
    /\ \E i \in MarkerPlaces(original) : i >= 1 /\ i + 7 < Len(original)

====
